---- MODULE Spec2Model ----
(***************************************************************************)
(* Road-network builder (src/main.py) and danger-zone aware route search   *)
(* (src/test.py, class SafeRouteFinder).                                   *)
(*                                                                         *)
(* A coordinate (lat, lon) is one of the points 1..NumNodes; its key       *)
(* "lat,lon" is the 1-tuple <<p>>, and the order of two keys (Python's     *)
(* string order, used by heapq on (distance, key) pairs) is the order of   *)
(* the numbers.  The Haversine distance between two points is read from    *)
(* the symmetric table hav, chosen at Init (zero on the diagonal, zero     *)
(* also between distinct points when the formula underflows).  Distances   *)
(* are kilometres, intersection lengths are metres, both integers.         *)
(***************************************************************************)
EXTENDS Integers, Sequences, FiniteSets, TLC

\* ------------------------------------------------------------------ bounds
\* points of the world
NumNodes == 4
\* kilometres between two points at different places
MaxDist == 1
\* road segments of a map searched for routes
MaxRoads == 4
\* polygons registered on such a map
MaxZones == 1
\* road segments, and polygons, where polygons are stacked on a short road
ShortRoads == 2
MaxStacked == 2
\* ways, and node records, of the raw data handed to the builder
MaxWays == 2
MaxId == 3

Coords == 1..NumNodes
\* float('infinity')
Infinity == 1000000
NoNode == <<>>

VARIABLES
    hav,                  \* Haversine distance table of the map's points
    data,                 \* raw elements handed to create_road_graph
    G,                    \* the networkx graph built from them
    routing_table,        \* the routing table (main.py's, then the finder's)
    danger_nodes,         \* SafeRouteFinder.danger_nodes
    danger_polygons,      \* SafeRouteFinder.danger_polygons
    tolerance_meters,     \* SafeRouteFinder.tolerance_meters
    pc,                   \* control point of the program
    start_coords,         \* arguments of the running find_safe_route call
    end_coords,
    start_node,           \* locals of find_safe_route
    end_node,
    distances,
    previous,
    danger_intersections,
    visited,
    pq,
    current,
    path,
    outcome,              \* what the call returned or raised
    rewritten,            \* history: nodes given a new predecessor once visited
    last                  \* the caller's record of the call before this one

build_vars == <<hav, data, G, routing_table>>
finder_vars == <<danger_nodes, danger_polygons, tolerance_meters>>
call_vars == <<start_coords, end_coords, start_node, end_node, distances, previous,
               danger_intersections, visited, pq, current, path, outcome, rewritten>>
vars == <<build_vars, finder_vars, pc, call_vars, last>>

\* ------------------------------------------------------- small utilities
Range(s) == {s[i] : i \in 1..Len(s)}

Contains(s, x) == \E i \in 1..Len(s) : s[i] = x

AppendNew(s, x) == IF Contains(s, x) THEN s ELSE Append(s, x)

SeqsUpTo(S, lo, hi) == UNION {[1..n -> S] : n \in lo..hi}

\* ------------------------------------------------------------- main.py
coord_to_string(coord) == <<coord>>

string_to_coord(s) == s[1]

calculate_distance(h, point1, point2) == h[point1][point2]

EmptyGraph == [nodes |-> <<>>,
               adj |-> [p \in Coords |-> <<>>],
               attr |-> [e \in {} |-> 0]]

\* add_edge of a directed graph: v becomes a neighbour of u only
add_edge_OneWay(g, u, v, attrs) ==
    LET e == {u, v}
    IN  [nodes |-> AppendNew(AppendNew(g.nodes, u), v),
         adj |-> [g.adj EXCEPT ![u] = AppendNew(@, v)],
         attr |-> [x \in DOMAIN g.attr \cup {e} |->
                      IF x = e THEN attrs ELSE g.attr[x]]]

\* add_edge that keeps the attributes an edge already has
add_edge_KeepFirst(g, u, v, attrs) ==
    LET adj1 == [g.adj EXCEPT ![u] = AppendNew(@, v)]
        adj2 == [adj1 EXCEPT ![v] = AppendNew(@, u)]
        e == {u, v}
    IN  [nodes |-> AppendNew(AppendNew(g.nodes, u), v),
         adj |-> adj2,
         attr |-> [x \in DOMAIN g.attr \cup {e} |->
                      IF x \in DOMAIN g.attr THEN g.attr[x] ELSE attrs]]

\* networkx Graph.add_edge: both endpoints become nodes (in this order),
\* each becomes a neighbour of the other once, and the edge's one attribute
\* dictionary, shared by both directions, is updated with the new values.
add_edge(g, u, v, attrs) ==
    LET adj1 == [g.adj EXCEPT ![u] = AppendNew(@, v)]
        adj2 == [adj1 EXCEPT ![v] = AppendNew(@, u)]
        e == {u, v}
    IN  [nodes |-> AppendNew(AppendNew(g.nodes, u), v),
         adj |-> adj2,
         attr |-> [x \in DOMAIN g.attr \cup {e} |->
                      IF x = e THEN attrs ELSE g.attr[x]]]

\* first loop of create_road_graph: the node index, a later record of an
\* id replacing an earlier one
RECURSIVE NodeIndex(_, _)
NodeIndex(elements, idx) ==
    IF elements = <<>> THEN idx
    ELSE LET el == Head(elements)
         IN  NodeIndex(Tail(elements),
                 IF el.type = "node"
                 THEN [i \in DOMAIN idx \cup {el.id} |->
                          IF i = el.id THEN el.pt ELSE idx[i]]
                 ELSE idx)

TagGet(tags, k, default) == IF k \in DOMAIN tags THEN tags[k] ELSE default

\* inner loop of create_road_graph over the segments i, i+1 of one way
RECURSIVE AddSegments(_, _, _, _, _)
AddSegments(g, h, nodes, way, i) ==
    IF i > Len(way.nodes) - 1 THEN g
    ELSE LET node1_id == way.nodes[i]
             node2_id == way.nodes[i + 1]
         IN  IF node1_id \in DOMAIN nodes /\ node2_id \in DOMAIN nodes
             THEN LET point1 == nodes[node1_id]
                      point2 == nodes[node2_id]
                  IN  AddSegments(
                          add_edge(g, point1, point2,
                              [distance |-> calculate_distance(h, point1, point2),
                               road_type |-> way.tags["highway"],
                               name |-> TagGet(way.tags, "name", "unnamed"),
                               oneway |-> TagGet(way.tags, "oneway", "no") = "yes"]),
                          h, nodes, way, i + 1)
             ELSE AddSegments(g, h, nodes, way, i + 1)

IsHighway(el) ==
    el.type = "way" /\ el.hasTags /\ "highway" \in DOMAIN el.tags

\* second loop of create_road_graph
RECURSIVE AddWays(_, _, _, _)
AddWays(g, h, nodes, elements) ==
    IF elements = <<>> THEN g
    ELSE LET el == Head(elements)
         IN  AddWays(IF IsHighway(el) THEN AddSegments(g, h, nodes, el, 1) ELSE g,
                     h, nodes, Tail(elements))

create_road_graph(h, d) ==
    AddWays(EmptyGraph, h, NodeIndex(d.elements, [i \in {} |-> 0]), d.elements)

\* the routes of one node, one entry per neighbour in adjacency order
RoutesOf(g, node) ==
    [j \in 1..Len(g.adj[node]) |->
        LET neighbor == g.adj[node][j]
            edge_data == g.attr[{node, neighbor}]
        IN  [destination |-> coord_to_string(neighbor),
             next_hop |-> coord_to_string(neighbor),
             distance |-> edge_data.distance,
             road_type |-> edge_data.road_type,
             road_name |-> edge_data.name,
             oneway |-> edge_data.oneway]]

\* A dict is its keys in insertion order and the value of each key.  The
\* defaultdict gets a key only when an entry is appended to its list.
create_routing_table(g) ==
    LET withRoutes == SelectSeq(g.nodes, LAMBDA n : Len(g.adj[n]) > 0)
    IN  [keys |-> [i \in 1..Len(withRoutes) |-> coord_to_string(withRoutes[i])],
         routes |-> [k \in {coord_to_string(n) : n \in Range(withRoutes)} |->
                        RoutesOf(g, string_to_coord(k))]]

EmptyTable == [keys |-> <<>>, routes |-> [k \in {} |-> <<>>]]

\* ---------------------------------------------------------- raw elements
NodeElement(i, p) == [type |-> "node", id |-> i, pt |-> p]

WayElement(ns, hasTags, tags) ==
    [type |-> "way", nodes |-> ns, hasTags |-> hasTags, tags |-> tags]

NoTags == [k \in {} |-> ""]

\* -------------------------------------------------------------- test.py
\* A polygon is known by what shapely answers about it: the length in
\* metres of the single LineString in which it meets the chord of two
\* points (0 when they do not meet or meet in another geometry, and for the
\* chord of a point with itself), and the points it contains.
\* (cut[p][q] for the chord of the points p and q, the same as cut[q][p])

\* the tolerance main() constructs the finder with
MainTolerance == 40

CutLens == {0, MainTolerance, MainTolerance + 1}

haversine_distance(h, coord1_str, coord2_str) ==
    h[string_to_coord(coord1_str)][string_to_coord(coord2_str)]

\* a finder that sees no polygon
calculate_intersection_length_Clear(start_point, end_point, danger_zone) == 0

calculate_intersection_length(start_point, end_point, danger_zone) ==
    LET a == string_to_coord(start_point)
        b == string_to_coord(end_point)
    IN  IF a = b THEN 0 ELSE danger_zone.cut[a][b]

\* the first key of the table, whatever the coordinates
find_nearest_node_First(h, rt, coords) == rt.keys[1]

\* min() over the keys in dict order: the first key of least distance
find_nearest_node(h, rt, coords) ==
    LET target == coord_to_string(coords)
        d(i) == haversine_distance(h, rt.keys[i], target)
        best == CHOOSE i \in 1..Len(rt.keys) :
                    /\ \A j \in 1..Len(rt.keys) : d(i) <= d(j)
                    /\ \A j \in 1..(i - 1) : d(j) > d(i)
    IN  rt.keys[best]

\* lines 95-98: the intersection of one segment summed over all polygons
RECURSIVE SumIntersections(_, _, _, _)
SumIntersections(polys, i, a, b) ==
    IF i > Len(polys) THEN 0
    ELSE calculate_intersection_length(a, b, polys[i])
             + SumIntersections(polys, i + 1, a, b)

\* a queue ordered by key alone
HeapLess_ByKey(x, y) == x[2][1] < y[2][1]

\* heapq orders (distance, key) pairs by distance, then by key
HeapLess(x, y) == x[1] < y[1] \/ (x[1] = y[1] /\ x[2][1] < y[2][1])

HeapMinIndex(q) ==
    CHOOSE i \in 1..Len(q) :
        /\ \A j \in 1..Len(q) : ~HeapLess(q[j], q[i])
        /\ \A j \in 1..(i - 1) : HeapLess(q[i], q[j])

RemoveAt(q, i) == [j \in 1..(Len(q) - 1) |-> IF j < i THEN q[j] ELSE q[j + 1]]

\* a loop without the visited test
AlreadyVisited_Never(cur, seen) == FALSE

\* line 84
AlreadyVisited(cur, seen) == cur \in seen

\* the cap with >= in place of >
Skipped_AtTolerance(neighbor_node, intersection_length) ==
    intersection_length >= tolerance_meters

\* a search that also avoids the nodes add_danger_zone collected
Skipped_DangerNodes(neighbor_node, intersection_length) ==
    \/ intersection_length > tolerance_meters
    \/ neighbor_node \in danger_nodes

\* line 100: the edge to neighbor_node is left out
Skipped(neighbor_node, intersection_length) ==
    intersection_length > tolerance_meters

\* the update without the tie-break on the intersection
Improves_DistanceOnly(distance, new_intersection, old_distance, old_intersection) ==
    distance < old_distance

\* lines 106-108
Improves(distance, new_intersection, old_distance, old_intersection) ==
    \/ distance < old_distance
    \/ /\ distance = old_distance
       /\ new_intersection < old_intersection

\* lines 92-112: the neighbours of the popped node, in list order.  s is
\* the search state; a destination missing from the maps raises KeyError.
RECURSIVE Relax(_, _, _, _, _)
Relax(s, routes, i, cur, current_distance) ==
    IF i > Len(routes) \/ s.err THEN s
    ELSE LET neighbor_node == routes[i].destination
             intersection_length ==
                 SumIntersections(danger_polygons, 1, cur, neighbor_node)
         IN  IF Skipped(neighbor_node, intersection_length)
             THEN Relax(s, routes, i + 1, cur, current_distance)
             ELSE IF neighbor_node \notin DOMAIN s.distances
             THEN [s EXCEPT !.err = TRUE]
             ELSE LET distance == current_distance + routes[i].distance
                      new_intersection == s.danger[cur] + intersection_length
                  IN  IF Improves(distance, new_intersection,
                                  s.distances[neighbor_node], s.danger[neighbor_node])
                      THEN Relax([distances |-> [s.distances EXCEPT ![neighbor_node] = distance],
                                  danger |-> [s.danger EXCEPT ![neighbor_node] = new_intersection],
                                  previous |-> [s.previous EXCEPT ![neighbor_node] = cur],
                                  pq |-> Append(s.pq, <<distance, neighbor_node>>),
                                  err |-> FALSE],
                                 routes, i + 1, cur, current_distance)
                      ELSE Relax(s, routes, i + 1, cur, current_distance)

\* the value of a call that has not returned, and of locals outside a call
NoOutcome == [kind |-> "none", msg |-> "", path |-> <<>>, distance |-> 0]

Raised(kind, msg) == [kind |-> kind, msg |-> msg, path |-> <<>>, distance |-> 0]

Returned(p, d) == [kind |-> "return", msg |-> "", path |-> p, distance |-> d]

NoCall == [start |-> 0, end |-> 0, polygons |-> <<>>, nodes |-> {}, outcome |-> NoOutcome]

Reverse(s) == [i \in 1..Len(s) |-> s[Len(s) + 1 - i]]

IdleLocals ==
    /\ start_coords = 0 /\ end_coords = 0
    /\ start_node = NoNode /\ end_node = NoNode
    /\ distances = <<>> /\ previous = <<>> /\ danger_intersections = <<>>
    /\ visited = {} /\ pq = <<>> /\ current = NoNode /\ path = <<>>
    /\ outcome = NoOutcome
    /\ rewritten = {}

\* ------------------------------------------------------------- actions
\* main.py main(): G = create_road_graph(data)
CreateRoadGraph ==
    /\ pc = "fetched"
    /\ G' = create_road_graph(hav, data)
    /\ pc' = "graph"
    /\ UNCHANGED <<hav, data, routing_table, finder_vars, call_vars, last>>

\* main.py main(): routing_table = create_routing_table(G)
CreateRoutingTable ==
    /\ pc = "graph"
    /\ routing_table' = create_routing_table(G)
    /\ pc' = "table"
    /\ UNCHANGED <<hav, data, G, finder_vars, call_vars, last>>

\* test.py main(): the table main.py saved is loaded and the finder built
\* on it; main.py's data and graph are gone
LoadTable ==
    /\ pc = "table"
    /\ data' = [elements |-> <<>>]
    /\ G' = EmptyGraph
    /\ danger_nodes' = {}
    /\ danger_polygons' = <<>>
    /\ tolerance_meters' = MainTolerance
    /\ pc' = "idle"
    /\ UNCHANGED <<hav, routing_table, call_vars, last>>

\* SafeRouteFinder.add_danger_zone(coordinates)
add_danger_zone(polygon) ==
    /\ pc = "idle"
    /\ danger_polygons' = Append(danger_polygons, polygon)
    /\ danger_nodes' = danger_nodes \cup
           {node \in Range(routing_table.keys) : string_to_coord(node) \in polygon.inside}
    /\ UNCHANGED <<build_vars, tolerance_meters, pc, call_vars, last>>

\* find_safe_route, lines 66-79: snap both coordinates, set up the search
find_safe_route(sc, ec) ==
    /\ pc = "idle"
    /\ start_coords' = sc
    /\ end_coords' = ec
    /\ IF Len(routing_table.keys) = 0
       THEN /\ outcome' = Raised("ValueError", "min() arg is an empty sequence")
            /\ pc' = "raised"
            /\ UNCHANGED <<start_node, end_node, distances, previous,
                           danger_intersections, visited, pq, current, path, rewritten>>
       ELSE LET sn == find_nearest_node(hav, routing_table, sc)
                en == find_nearest_node(hav, routing_table, ec)
                keys == Range(routing_table.keys)
            IN  /\ start_node' = sn
                /\ end_node' = en
                /\ distances' = [node \in keys |-> IF node = sn THEN 0 ELSE Infinity]
                /\ pq' = << <<0, sn>> >>
                /\ previous' = [node \in keys |-> NoNode]
                /\ danger_intersections' = [node \in keys |-> 0]
                /\ visited' = {}
                /\ pc' = "search"
                /\ UNCHANGED <<current, path, outcome, rewritten>>
    /\ UNCHANGED <<build_vars, finder_vars, last>>

\* lines 114-118, reached by the break and by the queue running empty
AfterSearch(dist) ==
    IF dist[end_node] = Infinity
    THEN /\ outcome' = Raised("ValueError", "No safe route found")
         /\ pc' = "raised"
         /\ UNCHANGED <<current, path>>
    ELSE /\ path' = <<>>
         /\ current' = end_node
         /\ pc' = "rebuild"
         /\ UNCHANGED outcome

\* one iteration of `while pq` (lines 81-112)
SearchStep ==
    /\ pc = "search"
    /\ pq # <<>>
    /\ LET i == HeapMinIndex(pq)
           current_distance == pq[i][1]
           cur == pq[i][2]
           rest == RemoveAt(pq, i)
       IN  IF AlreadyVisited(cur, visited)
           THEN /\ pq' = rest
                /\ UNCHANGED <<distances, previous, danger_intersections, visited,
                               current, path, outcome, pc, rewritten>>
           ELSE /\ visited' = visited \cup {cur}
                /\ IF cur = end_node
                   THEN /\ pq' = rest
                        /\ UNCHANGED <<distances, previous, danger_intersections,
                                       rewritten>>
                        /\ AfterSearch(distances)
                   ELSE LET s == Relax([distances |-> distances,
                                        danger |-> danger_intersections,
                                        previous |-> previous,
                                        pq |-> rest,
                                        err |-> FALSE],
                                       routing_table.routes[cur], 1, cur,
                                       current_distance)
                        IN  /\ distances' = s.distances
                            /\ danger_intersections' = s.danger
                            /\ previous' = s.previous
                            /\ pq' = s.pq
                            /\ rewritten' = rewritten \cup
                                   {n \in visited' : s.previous[n] # previous[n]}
                            /\ IF s.err
                               THEN /\ outcome' = Raised("KeyError", "")
                                    /\ pc' = "raised"
                               ELSE UNCHANGED <<outcome, pc>>
                            /\ UNCHANGED <<current, path>>
    /\ UNCHANGED <<build_vars, finder_vars, start_coords, end_coords,
                   start_node, end_node, last>>

\* `while pq` finds the queue empty
SearchExhausted ==
    /\ pc = "search"
    /\ pq = <<>>
    /\ AfterSearch(distances)
    /\ UNCHANGED <<build_vars, finder_vars, start_coords, end_coords, start_node,
                   end_node, distances, previous, danger_intersections, visited,
                   pq, rewritten, last>>

\* one iteration of `while current is not None` (lines 120-122)
RebuildStep ==
    /\ pc = "rebuild"
    /\ current # NoNode
    /\ Len(path) <= NumNodes
    /\ path' = Append(path, current)
    /\ current' = previous[current]
    /\ UNCHANGED <<build_vars, finder_vars, pc, start_coords, end_coords, start_node,
                   end_node, distances, previous, danger_intersections, visited,
                   pq, outcome, rewritten, last>>

\* lines 124-129
ReturnRoute ==
    /\ pc = "rebuild"
    /\ current = NoNode
    /\ path' = Reverse(path)
    /\ outcome' = Returned(Reverse(path), distances[end_node])
    /\ pc' = "returned"
    /\ UNCHANGED <<build_vars, finder_vars, start_coords, end_coords, start_node,
                   end_node, distances, previous, danger_intersections, visited,
                   pq, current, rewritten, last>>

\* the caller takes the result or the exception; the locals are gone
Unwind ==
    /\ pc \in {"returned", "raised"}
    /\ pc' = "idle"
    /\ start_coords' = 0 /\ end_coords' = 0
    /\ start_node' = NoNode /\ end_node' = NoNode
    /\ distances' = <<>> /\ previous' = <<>> /\ danger_intersections' = <<>>
    /\ visited' = {} /\ pq' = <<>> /\ current' = NoNode /\ path' = <<>>
    /\ outcome' = NoOutcome
    /\ rewritten' = {}
    /\ UNCHANGED <<build_vars, finder_vars>>

CallEnds == Unwind /\ UNCHANGED last

\* the same, the caller keeping the call and its result for comparison
CallEndsRecorded ==
    /\ Unwind
    /\ last' = [start |-> start_coords, end |-> end_coords,
                polygons |-> danger_polygons, nodes |-> danger_nodes,
                outcome |-> outcome]

\* ------------------------------------------------------ initial states
\* one node record per id, each at the point of its own number
NodeRecords(n) == [i \in 1..n |-> NodeElement(i, i)]

\* the same, the last id recorded a second time at the first one's place
MovedRecords(n) == Append(NodeRecords(n), NodeElement(n, 1))

Highway == [k \in {"highway"} |-> "primary"]

OnewayStreet ==
    [k \in {"highway", "oneway"} |-> IF k = "highway" THEN "residential" ELSE "yes"]

Ways(ids, lo, hi, tagsets) ==
    {WayElement(ns, TRUE, t) : ns \in SeqsUpTo(ids, lo, hi), t \in tagsets}

\* ways that are no roads: one without tags, one tagged with a name only
OtherWays ==
    {WayElement(<<1, 2>>, FALSE, NoTags),
     WayElement(<<2, 1, 2>>, TRUE, [k \in {"name"} |-> "Ring Road"])}

\* What fetch_delhi_roads may hand over: node records of the ids 1..MaxId
\* and up to MaxWays ways of one or two segments over these ids and the id
\* 0, which no record carries.
BuildData ==
    {[elements |-> nr \o ws] :
        nr \in {NodeRecords(MaxId), MovedRecords(MaxId)},
        ws \in SeqsUpTo(Ways(0..MaxId, 2, 3, {Highway, OnewayStreet}) \cup OtherWays,
                        0, MaxWays)}

\* the segments between different points, in the order of their numbers
AllSegments ==
    SelectSeq([i \in 1..(NumNodes * NumNodes) |->
                  <<((i - 1) \div NumNodes) + 1, ((i - 1) % NumNodes) + 1>>],
              LAMBDA sg : sg[1] < sg[2])

\* road data of up to n highways of one segment each, every node known
SegmentData(n) ==
    {[elements |-> NodeRecords(NumNodes) \o
                   [i \in 1..Len(ws) |-> WayElement(ws[i], TRUE, Highway)]] :
        ws \in {SelectSeq(AllSegments, LAMBDA sg : sg \in E) :
                   E \in {X \in SUBSET Range(AllSegments) : Cardinality(X) <= n}}}

NoData == [elements |-> <<>>]

\* A world: every two points MaxDist kilometres apart, but for the points
\* 2 and 3, which are twin kilometres apart (0 when they lie so close that
\* the Haversine formula underflows).
World(twin) ==
    [p \in Coords |-> [q \in Coords |->
        IF p = q THEN 0 ELSE IF {p, q} = {2, 3} THEN twin ELSE MaxDist]]

UnitWorlds == {World(MaxDist)}

TwinWorlds == {World(0), World(MaxDist)}

FinderInit ==
    /\ danger_nodes = {}
    /\ danger_polygons = <<>>
    /\ tolerance_meters = MainTolerance
    /\ IdleLocals
    /\ last = NoCall

\* main.py after fetch_delhi_roads
InitBuild ==
    /\ hav \in UnitWorlds
    /\ data \in BuildData
    /\ G = EmptyGraph
    /\ routing_table = EmptyTable
    /\ pc = "fetched"
    /\ FinderInit

QueryAny == \E sc, ec \in Coords : find_safe_route(sc, ec)

NextBuild ==
    \/ CreateRoadGraph
    \/ CreateRoutingTable
    \/ LoadTable
    \/ QueryAny
    \/ SearchStep
    \/ SearchExhausted
    \/ RebuildStep
    \/ ReturnRoute
    \/ CallEnds

SpecBuild == InitBuild /\ [][NextBuild]_vars

\* the chords that carry a road
RoadChords(rt) ==
    UNION {{{string_to_coord(k), string_to_coord(rt.routes[k][i].destination)} :
               i \in 1..Len(rt.routes[k])} : k \in DOMAIN rt.routes}

\* The polygons a caller registers, told apart by what the finder can see
\* of them: where they meet a road, and which node they contain.
ZoneInputs(rt) ==
    LET roads == {c \in RoadChords(rt) : Cardinality(c) = 2}
        keys == {string_to_coord(k) : k \in DOMAIN rt.routes}
    IN  {[cut |-> [p \in Coords |-> [q \in Coords |->
                      IF {p, q} \in roads THEN f[{p, q}] ELSE 0]],
          inside |-> {}] : f \in [roads -> CutLens]}
        \cup {[cut |-> [p \in Coords |-> [q \in Coords |-> 0]], inside |-> {p0}] :
                 p0 \in keys}

AddZone(limit) ==
    /\ pc = "idle"
    /\ Len(danger_polygons) < limit
    /\ \E polygon \in ZoneInputs(routing_table) : add_danger_zone(polygon)

\* test.py after SafeRouteFinder(routing_table, tolerance_meters=40) on a
\* table main.py wrote
Init ==
    /\ hav \in TwinWorlds
    /\ data = NoData
    /\ G = EmptyGraph
    /\ routing_table \in {create_routing_table(create_road_graph(hav, d)) :
                               d \in SegmentData(MaxRoads)}
    /\ pc = "idle"
    /\ FinderInit

Next ==
    \/ AddZone(MaxZones)
    \/ QueryAny
    \/ SearchStep
    \/ SearchExhausted
    \/ RebuildStep
    \/ ReturnRoute
    \/ CallEnds

Spec == Init /\ [][Next]_vars

\* the same data, every point a node with a road to itself
LoopData(n) ==
    {[elements |-> d.elements \o
                   [p \in 1..NumNodes |-> WayElement(<<p, p>>, TRUE, Highway)]] :
        d \in SegmentData(n)}

\* the finder on a world whose twins are zero kilometres apart, the roads
\* with and without the roads of the nodes to themselves
InitLoops ==
    /\ hav = World(0)
    /\ data = NoData
    /\ G = EmptyGraph
    /\ routing_table \in {create_routing_table(create_road_graph(hav, d)) :
                               d \in SegmentData(MaxRoads) \cup LoopData(MaxRoads)}
    /\ pc = "idle"
    /\ FinderInit

SpecLoops == InitLoops /\ [][Next]_vars

\* the same finder on short roads, polygons stacked, calls compared
InitZones ==
    /\ hav \in UnitWorlds
    /\ data = NoData
    /\ G = EmptyGraph
    /\ routing_table \in {create_routing_table(create_road_graph(hav, d)) :
                               d \in SegmentData(ShortRoads)}
    /\ pc = "idle"
    /\ FinderInit

\* the caller asks one question again and again
QueryAgain ==
    \E sc, ec \in Coords :
        /\ last # NoCall => sc = last.start /\ ec = last.end
        /\ find_safe_route(sc, ec)

NextZones ==
    \/ AddZone(MaxStacked)
    \/ QueryAgain
    \/ SearchStep
    \/ SearchExhausted
    \/ RebuildStep
    \/ ReturnRoute
    \/ CallEndsRecorded

SpecZones == InitZones /\ [][NextZones]_vars

\* ------------------------------------------------- what the claims speak of
TableKeys == Range(routing_table.keys)

\* the table has an edge from a to b
RoadTo(a, b) ==
    /\ a \in DOMAIN routing_table.routes
    /\ \E i \in 1..Len(routing_table.routes[a]) :
           routing_table.routes[a][i].destination = b

RoadLength(a, b) ==
    LET i == CHOOSE j \in 1..Len(routing_table.routes[a]) :
                 routing_table.routes[a][j].destination = b
    IN  routing_table.routes[a][i].distance

\* metres of the segment a-b inside the polygons polys, all together
MetersIn(polys, a, b) ==
    LET sum[i \in 0..Len(polys)] ==
            IF i = 0 THEN 0
            ELSE sum[i - 1] + (IF a = b THEN 0 ELSE polys[i].cut[a[1]][b[1]])
    IN  sum[Len(polys)]

ZoneMeters(a, b) == MetersIn(danger_polygons, a, b)

Admissible(a, b) == RoadTo(a, b) /\ ZoneMeters(a, b) <= tolerance_meters

\* sequences of keys, no key twice, from s to e
SimpleWalks(s, e) ==
    {p \in SeqsUpTo(TableKeys, 1, Cardinality(TableKeys)) :
        /\ p[1] = s
        /\ p[Len(p)] = e
        /\ \A i, j \in 1..Len(p) : i # j => p[i] # p[j]}

\* those that follow edges of the table
Routes(s, e) ==
    {p \in SimpleWalks(s, e) : \A i \in 1..(Len(p) - 1) : RoadTo(p[i], p[i + 1])}

\* those that follow admissible edges
SafeRoutes(s, e) ==
    {p \in SimpleWalks(s, e) : \A i \in 1..(Len(p) - 1) : Admissible(p[i], p[i + 1])}

Kilometres(p) ==
    LET sum[i \in 1..Len(p)] ==
            IF i = 1 THEN 0 ELSE sum[i - 1] + RoadLength(p[i - 1], p[i])
    IN  sum[Len(p)]

DangerMeters(p) ==
    LET sum[i \in 1..Len(p)] ==
            IF i = 1 THEN 0 ELSE sum[i - 1] + ZoneMeters(p[i - 1], p[i])
    IN  sum[Len(p)]

NoRouteError == Raised("ValueError", "No safe route found")

\* C1: a returned path runs over admissible edges from the start node to
\* the end node, its edge distances sum to the returned total, and no path
\* of admissible edges between the two nodes is shorter; with no polygon
\* registered no path of the table at all is shorter.
C1_ShortestSafeRoute ==
    pc = "returned" =>
        /\ outcome.path \in SafeRoutes(start_node, end_node)
        /\ Kilometres(outcome.path) = outcome.distance
        /\ \A p \in SafeRoutes(start_node, end_node) :
               outcome.distance <= Kilometres(p)
        /\ danger_polygons = <<>> =>
               \A p \in Routes(start_node, end_node) : outcome.distance <= Kilometres(p)

\* a polygon closes a shorter road and the longer way round is returned
C1_Witness ==
    /\ pc = "returned"
    /\ \E p \in Routes(start_node, end_node) : Kilometres(p) < outcome.distance
    /\ Len(outcome.path) >= 3

\* C2: on a table with nodes the call ends in the "No safe route found"
\* error exactly when no path of admissible edges joins the two snap nodes,
\* and then returns no path; a call whose ends snap to one node returns
\* that node alone and distance 0.
C2_NoRouteExactly ==
    (pc \in {"returned", "raised"} /\ routing_table.keys # <<>>) =>
        /\ outcome = NoRouteError <=> SafeRoutes(start_node, end_node) = {}
        /\ SafeRoutes(start_node, end_node) = {} => outcome.kind # "return"
        /\ outcome.kind = "return" =>
               /\ outcome.path # <<>>
               /\ outcome.path[Len(outcome.path)] = end_node
        /\ start_node = end_node => outcome = Returned(<<start_node>>, 0)

\* roads join the two nodes, every way along them is closed by a polygon
C2_Witness ==
    /\ pc = "raised"
    /\ outcome = NoRouteError
    /\ Routes(start_node, end_node) # {}
    /\ visited # {start_node}

\* C3: a returned path is not empty, starts at a key nearest to the start
\* coordinate, ends at a key nearest to the end coordinate, and each of its
\* steps is an edge of the table.
C3_PathIsRoute ==
    pc = "returned" =>
        LET p == outcome.path
            Nearest(k, c) ==
                /\ k \in TableKeys
                /\ \A n \in TableKeys : hav[k[1]][c] <= hav[n[1]][c]
        IN  /\ Len(p) >= 1
            /\ Nearest(p[1], start_coords)
            /\ Nearest(p[Len(p)], end_coords)
            /\ \A i \in 1..(Len(p) - 1) : RoadTo(p[i], p[i + 1])

\* a path through a node whose predecessor was rewritten after its visit
C3_Witness ==
    /\ pc = "returned"
    /\ \E i \in 1..Len(outcome.path) : outcome.path[i] \in rewritten

\* C4: an edge is left out of the search exactly when its metres inside
\* the registered polygons, summed, exceed the tolerance: expanding a node
\* leaves the maps of a neighbour behind such an edge alone and brings the
\* neighbour behind any other edge down to the candidate at least.  So a
\* returned path has no edge above the tolerance, and a path of admissible
\* edges is returned whatever its metres sum to.
C4_Expansion ==
    (pc = "search" /\ pc' = "search" /\ visited' # visited) =>
        LET cur == CHOOSE n \in visited' : n \notin visited
        IN  \A n \in TableKeys :
                RoadTo(cur, n) =>
                    IF ZoneMeters(cur, n) > tolerance_meters
                    THEN /\ distances'[n] = distances[n]
                         /\ danger_intersections'[n] = danger_intersections[n]
                         /\ previous'[n] = previous[n]
                    ELSE LET d == distances[cur] + RoadLength(cur, n)
                             m == danger_intersections[cur] + ZoneMeters(cur, n)
                         IN  \/ distances'[n] < d
                             \/ distances'[n] = d /\ danger_intersections'[n] <= m

C4_Outcome ==
    pc \in {"returned", "raised"} =>
        /\ outcome.kind = "return" =>
               \A i \in 1..(Len(outcome.path) - 1) :
                   ZoneMeters(outcome.path[i], outcome.path[i + 1]) <= tolerance_meters
        /\ SafeRoutes(start_node, end_node) # {} => outcome.kind = "return"

\* C4: the tolerance caps each segment alone: an expansion leaves out exactly
\* the edges with more metres inside the polygons than the tolerance, and a
\* returned path may hold more metres in total than the tolerance.
C4_PerEdgeCap == []C4_Outcome /\ [][C4_Expansion]_vars

\* two polygons registered, each meeting an edge of the returned path; an
\* edge of the path has exactly the tolerance inside them, the path more
\* than the tolerance
C4_Witness ==
    /\ pc = "returned"
    /\ Len(danger_polygons) = 2
    /\ DangerMeters(outcome.path) > tolerance_meters
    /\ \E i \in 1..(Len(outcome.path) - 1) :
           ZoneMeters(outcome.path[i], outcome.path[i + 1]) = tolerance_meters
    /\ \A z \in 1..2 : \E i \in 1..(Len(outcome.path) - 1) :
           MetersIn(<<danger_polygons[z]>>, outcome.path[i], outcome.path[i + 1]) > 0

\* C6: the error of a search that exhausts its frontier is of a kind no
\* other failure of the call has: an error of that kind means that the
\* search ran on a table with nodes and found no route.
C6_NoRouteKindDistinct ==
    (pc = "raised" /\ outcome.kind = NoRouteError.kind) =>
        /\ routing_table.keys # <<>>
        /\ SafeRoutes(start_node, end_node) = {}

\* C7: the steps of a call leave the table, the polygons, the contained
\* nodes and the tolerance alone, and a call answers as the call before it
\* did when the coordinates are the same and every chord has as many
\* metres inside the polygons as it had then.
SameMeters(polys1, polys2) ==
    \A c, d \in Coords :
        MetersIn(polys1, <<c>>, <<d>>) = MetersIn(polys2, <<c>>, <<d>>)

C7_Repeats ==
    (/\ pc \in {"returned", "raised"}
     /\ last # NoCall
     /\ last.start = start_coords
     /\ last.end = end_coords
     /\ SameMeters(last.polygons, danger_polygons)) => outcome = last.outcome

C7_Frame ==
    (pc # "idle" \/ pc' # "idle") =>
        UNCHANGED <<routing_table, danger_polygons, danger_nodes, tolerance_meters>>

\* C7: a call changes nothing of the finder and answers from the table, the
\* polygons and the tolerance alone, never from danger_nodes or a call before.
C7_CallIsPure == []C7_Repeats /\ [][C7_Frame]_vars

\* the call is repeated after a polygon was registered that contains a
\* node of the path and meets no road
C7_Witness ==
    /\ pc = "returned"
    /\ last # NoCall
    /\ last.start = start_coords
    /\ last.end = end_coords
    /\ last.nodes # danger_nodes
    /\ Len(outcome.path) >= 2
    /\ \E i \in 1..Len(outcome.path) : outcome.path[i] \in danger_nodes

\* C9: on a table whose distances are all positive the returned path has
\* the least metres inside the polygons among the paths of admissible
\* edges of least distance, and danger_intersections[end_node] is the sum
\* of the metres of its edges.
PositiveTable ==
    \A a, b \in TableKeys : RoadTo(a, b) => RoadLength(a, b) > 0

C9_LeastDanger ==
    (pc = "returned" /\ PositiveTable) =>
        /\ \A p \in SafeRoutes(start_node, end_node) :
               Kilometres(p) = outcome.distance =>
                   DangerMeters(outcome.path) <= DangerMeters(p)
        /\ danger_intersections[end_node] = DangerMeters(outcome.path)

\* another path of the same distance has more metres inside the polygons
C9_Witness ==
    /\ pc = "returned"
    /\ PositiveTable
    /\ \E p \in SafeRoutes(start_node, end_node) :
           /\ Kilometres(p) = outcome.distance
           /\ DangerMeters(p) > DangerMeters(outcome.path)
    /\ DangerMeters(outcome.path) > 0

\* C8: a call on a table with nodes ends, returned with a path or raised
\* with "No safe route found".  While it runs a step of it can be taken,
\* and every step lowers a measure that cannot fall for ever: a step of the
\* queue loop marks a node visited that was not, or changes no map and
\* shortens the queue, so a node is expanded once at most; a step of the
\* reconstruction lengthens the path, which never grows beyond the number
\* of nodes, the links of previous leading from the end node to the start
\* node without a cycle.
RECURSIVE LinksToStart(_, _)
LinksToStart(n, fuel) ==
    \/ n = start_node
    \/ /\ fuel > 0
       /\ previous[n] # NoNode
       /\ LinksToStart(previous[n], fuel - 1)

C8_Links ==
    /\ pc \in {"rebuild", "returned"} =>
           /\ previous[start_node] = NoNode
           /\ LinksToStart(end_node, Cardinality(TableKeys) - 1)
           /\ Len(path) <= Cardinality(TableKeys)
    /\ pc = "returned" => outcome.kind = "return"
    /\ (pc = "raised" /\ routing_table.keys # <<>>) => outcome = NoRouteError

\* the loops are never stuck: an empty queue ends the search, a queue with
\* an entry gives an iteration (SearchStep asks no more than that), and the
\* reconstruction always has its next step
C8_Running ==
    /\ (pc = "search" /\ pq = <<>>) => ENABLED SearchExhausted
    /\ pc = "rebuild" => ENABLED (RebuildStep \/ ReturnRoute)

C8_Progress ==
    /\ (pc = "search" /\ pc' = "search") =>
           \/ /\ visited \subseteq visited'
              /\ Cardinality(visited') = Cardinality(visited) + 1
           \/ /\ UNCHANGED <<visited, distances, previous, danger_intersections>>
              /\ Len(pq') < Len(pq)
    /\ (pc = "rebuild" /\ pc' = "rebuild") => Len(path') = Len(path) + 1
    /\ pc = "search" => pc' \in {"search", "rebuild", "raised"}
    /\ pc = "rebuild" => pc' \in {"rebuild", "returned"}

\* C8: every call ends, each node is expanded once at most, and the links
\* of previous lead from the end node to the start node without a cycle.
C8_CallEnds == []C8_Links /\ []C8_Running /\ [][C8_Progress]_vars

\* a path is returned on a table with roads from nodes to themselves and
\* a road of zero kilometres between two nodes, after a visited node was
\* given a new predecessor
C8_Witness ==
    /\ pc = "returned"
    /\ rewritten # {}
    /\ RoadTo(start_node, start_node)
    /\ \E a, b \in TableKeys : a # b /\ RoadTo(a, b) /\ RoadLength(a, b) = 0

\* ------------------------------------------------ the builder's claims
\* the way records of the raw data that carry a highway tag
RoadWays ==
    {w \in 1..Len(data.elements) :
        /\ data.elements[w].type = "way"
        /\ data.elements[w].hasTags
        /\ "highway" \in DOMAIN data.elements[w].tags}

\* the id has a node record
Known(id) ==
    \E n \in 1..Len(data.elements) :
        data.elements[n].type = "node" /\ data.elements[n].id = id

\* the coordinates the node index holds for it: those of its last record
Resolved(id) ==
    LET n == CHOOSE m \in 1..Len(data.elements) :
                 /\ data.elements[m].type = "node" /\ data.elements[m].id = id
                 /\ \A l \in (m + 1)..Len(data.elements) :
                        ~(data.elements[l].type = "node" /\ data.elements[l].id = id)
    IN  data.elements[n].pt

\* way w has two consecutive node ids that resolve to a and b
Links(w, a, b) ==
    LET ids == data.elements[w].nodes
    IN  \E i \in 1..(Len(ids) - 1) :
            /\ Known(ids[i]) /\ Known(ids[i + 1])
            /\ {Resolved(ids[i]), Resolved(ids[i + 1])} = {a, b}

EntryTo(a, b) ==
    LET i == CHOOSE j \in 1..Len(routing_table.routes[a]) :
                 routing_table.routes[a][j].destination = b
    IN  routing_table.routes[a][i]

\* C5: the table has an edge from A to B exactly when a way with a highway
\* tag has two consecutive node ids resolving to A and B in either order;
\* the edge then exists in both directions with one distance.
C5_EdgesOfWays ==
    pc = "table" =>
        \A a, b \in Coords :
            /\ RoadTo(<<a>>, <<b>>) <=> \E w \in RoadWays : Links(w, a, b)
            /\ RoadTo(<<a>>, <<b>>) =>
                   /\ RoadTo(<<b>>, <<a>>)
                   /\ RoadLength(<<a>>, <<b>>) = RoadLength(<<b>>, <<a>>)

\* a one-way road with an unknown node id gave its other segment in both
\* directions, and a way without tags gave none
C5_Witness ==
    /\ pc = "table"
    /\ \E w \in RoadWays :
           /\ "oneway" \in DOMAIN data.elements[w].tags
           /\ \E i \in 1..Len(data.elements[w].nodes) : ~Known(data.elements[w].nodes[i])
           /\ \E a, b \in Coords :
                  a # b /\ Links(w, a, b) /\ RoadTo(<<a>>, <<b>>) /\ RoadTo(<<b>>, <<a>>)
    /\ \E w \in 1..Len(data.elements) :
           /\ data.elements[w].type = "way"
           /\ ~data.elements[w].hasTags
           /\ ~RoadTo(<<data.elements[w].nodes[1]>>, <<data.elements[w].nodes[2]>>)

\* C10: a built table is closed: its keys are distinct and are the nodes
\* with routes, every key has an edge, every destination is a key and is
\* its own next hop, no node has two edges to one destination, and an edge
\* carries the attributes of the last way that gave it.  A search on such
\* a table never fails on a key missing from its maps.
C10_Closed ==
    pc \notin {"fetched", "graph"} =>
        /\ DOMAIN routing_table.routes = TableKeys
        /\ \A i, j \in 1..Len(routing_table.keys) :
               i # j => routing_table.keys[i] # routing_table.keys[j]
        /\ \A k \in TableKeys :
               LET routes == routing_table.routes[k]
               IN  /\ Len(routes) >= 1
                   /\ \A i \in 1..Len(routes) :
                          /\ routes[i].destination \in TableKeys
                          /\ routes[i].next_hop = routes[i].destination
                   /\ \A i, j \in 1..Len(routes) :
                          i # j => routes[i].destination # routes[j].destination
        /\ outcome.kind # "KeyError"

C10_LastWay ==
    pc = "table" =>
        \A a, b \in Coords :
            RoadTo(<<a>>, <<b>>) =>
                LET w == CHOOSE v \in RoadWays :
                             /\ Links(v, a, b)
                             /\ \A u \in RoadWays : Links(u, a, b) => u <= v
                    tags == data.elements[w].tags
                    e == EntryTo(<<a>>, <<b>>)
                IN  /\ e.road_type = tags["highway"]
                    /\ e.oneway = ("oneway" \in DOMAIN tags /\ tags["oneway"] = "yes")
                    /\ e.road_name = IF "name" \in DOMAIN tags THEN tags["name"]
                                      ELSE "unnamed"
                    /\ e.distance = hav[a][b]

\* C10: the built table is closed and carries the last way's attributes,
\* and a search on it never meets a key missing from its maps.
C10_TableClosed == C10_Closed /\ C10_LastWay

\* two ways of different road types gave one segment, in opposite directions
C10_Witness ==
    /\ pc = "table"
    /\ \E v, w \in RoadWays, a, b \in Coords :
           /\ v < w /\ a # b
           /\ Links(v, a, b) /\ Links(w, a, b)
           /\ data.elements[v].tags # data.elements[w].tags
           /\ data.elements[v].nodes[1] # data.elements[w].nodes[1]
    /\ Len(routing_table.keys) >= 3

====
